---- MODULE Spec2Model ----
(***************************************************************************)
(* lab-infra: a CDK application of three stacks (network, Fargate service, *)
(* CI/CD pipeline) and the runbooks that deploy, operate and tear it down. *)
(*                                                                         *)
(* Two specifications share the variables:                                 *)
(*   SpecSynth  construction of the app (bin/lab-infra.ts and the three    *)
(*              stack constructors), for every environment it may be       *)
(*              synthesized for;                                           *)
(*   Spec       the life of the synthesized app: cdk deploy / destroy      *)
(*              runs, the pipeline's executions, the ECS service and the   *)
(*              documented cleanup.                                        *)
(***************************************************************************)
EXTENDS Integers, Sequences, FiniteSets, TLC

VARIABLES
    \* ---- construction (SpecSynth) ----
    processEnv,      \* process.env: CDK_DEFAULT_ACCOUNT, CDK_DEFAULT_REGION
    availableAzs,    \* number of availability zones the environment offers
    pc,              \* position in bin/lab-infra.ts and the constructors
    env,             \* the env object literal of bin/lab-infra.ts
    stackSeq,        \* stacks whose constructor has been entered, in order
    constructs,      \* the construct tree: [stack, id]
    executed,        \* log of construction statements executed (by site)
    held,            \* <<object, stack>>: the stack holds a reference to object
    flows,           \* [value, from, to]: value made in stack from, used in to
    subnets,         \* the subnets of LabInfraVpc
    outputs,         \* CfnOutputs: [stack, id, exportName]
    dependencies,    \* stack dependencies declared so far: <<stack, on>>
    tags,            \* tags added to the app
    index,           \* forEach index (0-based, as in the callbacks)
    \* ---- the synthesized app at work (Spec) ----
    status,          \* CloudFormation's state of each stack
    cli,             \* the cdk CLI invocation in progress
    cleanup,         \* the cleanup runbook the operator is following
    execution,       \* the pipeline execution: status of each action, or NoExecution
    desiredCount,    \* lab-infra-service: desired task count
    runningCount,    \* lab-infra-service: running tasks
    sourceBucket,    \* [exists, objects]: object versions of the source bucket
    artifactBucket,  \* [exists, objects]: objects of the artifact bucket
    logGroup,        \* [exists, streams]: /aws/ecs/lab-infra
    removed,         \* kinds of content that stack deletion has removed
    tasks,           \* the running tasks' network interfaces: [subnet, publicIp]
    request          \* the last HTTP request sent to a task: [port, result]

synthVars == <<processEnv, availableAzs, pc, env, stackSeq, constructs, executed,
               held, flows, subnets, outputs, dependencies, tags, index>>

netVars == <<tasks, request>>

opsVars == <<status, cli, cleanup, execution, desiredCount, runningCount,
             sourceBucket, artifactBucket, logGroup, removed, netVars>>

vars == <<synthVars, opsVars>>

-----------------------------------------------------------------------------
(* Bounds *)

\* The environment offers between 1 and MaxAvailableAzs availability zones.
MaxAvailableAzs == 3

\* A bucket holds at most MaxObjects object versions, the log group at most
\* MaxLogStreams streams (further writes are not counted).
MaxObjects == 1
MaxLogStreams == 1

-----------------------------------------------------------------------------
(* bin/lab-infra.ts *)

Undefined == "undefined"

networkStack        == "LabInfraNetworkStack"
fargateServiceStack == "LabInfraFargateServiceStack"
pipelineStack       == "LabInfraPipelineStack"

Stacks == {networkStack, fargateServiceStack, pipelineStack}

\* The order of the three `new ...Stack(app, ...)` statements (a mutant first).
StackOrderPipelineBeforeFargate == <<networkStack, pipelineStack, fargateServiceStack>>

StackOrder == <<networkStack, fargateServiceStack, pipelineStack>>

\* The values the two environment variables may take.
Accounts == {Undefined, "111111111111", "222222222222"}
Regions  == {Undefined, "", "ap-northeast-1", "us-east-1"}

DefaultRegion == "ap-northeast-1"

\* process.env.CDK_DEFAULT_REGION || "ap-northeast-1": undefined and "" are falsy.
RegionOrDefault(r) == IF r \in {Undefined, ""} THEN DefaultRegion ELSE r

\* The props handed to FargateServiceStack: vpc: networkStack.vpc (a mutant first:
\* the vpc is not passed on).
FargateServiceStackPropsNoVpc == [vpc |-> "none"]

FargateServiceStackProps == [vpc |-> "LabInfraVpc"]

\* fargateServiceStack.addDependency(networkStack)
ExplicitDependencies == {<<fargateServiceStack, networkStack>>}

AppTags == {<<"Project", "LabInfra">>, <<"Purpose", "Learning">>,
            <<"Environment", "Development">>}

-----------------------------------------------------------------------------
(* lib/network-stack.ts: the Vpc *)

\* cidr: "10.0.0.0/16" as the 32-bit address 10 * 2^24 and the mask length.
VpcCidrBase == 167772160
VpcCidrMask == 16

\* maxAzs (a mutant first: one zone more)
maxAzsThree == 2 + 1

maxAzs == 2

subnetConfiguration ==
    << [cidrMask |-> 24, name |-> "PublicSubnet",  subnetType |-> "PUBLIC"],
       [cidrMask |-> 24, name |-> "PrivateSubnet", subnetType |-> "PRIVATE_ISOLATED"] >>

Min(a, b) == IF a < b THEN a ELSE b

\* Stack.availabilityZones: an environment-agnostic stack (account unresolved)
\* gets two Fn::GetAZs selections; a concrete environment gets the zones the
\* context lookup reports. The Vpc then keeps the first maxAzs of them.
StackAvailabilityZones(e, avail) == IF e.account = Undefined THEN 2 ELSE avail

VpcAzCount(e, avail) == Min(maxAzs, StackAvailabilityZones(e, avail))

CidrSize(mask) == 2 ^ (32 - mask)

\* The next address at or after ip that a block of the given mask may start at.
AlignUp(ip, mask) == ((ip + CidrSize(mask) - 1) \div CidrSize(mask)) * CidrSize(mask)

\* The Vpc's allocation: the configurations in order, each over the zones in
\* order, every subnet taking the next free aligned block of its mask.
RECURSIVE AllocateSubnets(_, _, _, _, _)
AllocateSubnets(configs, c, az, nAzs, next) ==
    IF c > Len(configs) THEN <<>>
    ELSE IF az > nAzs THEN AllocateSubnets(configs, c + 1, 1, nAzs, next)
    ELSE LET base == AlignUp(next, configs[c].cidrMask)
         IN  << [name       |-> configs[c].name,
                 subnetType |-> configs[c].subnetType,
                 az         |-> az,
                 base       |-> base,
                 cidrMask   |-> configs[c].cidrMask] >>
             \o AllocateSubnets(configs, c, az + 1, nAzs,
                                base + CidrSize(configs[c].cidrMask))

VpcSubnets(e, avail) ==
    AllocateSubnets(subnetConfiguration, 1, 1, VpcAzCount(e, avail), VpcCidrBase)

SubnetsOfType(ss, t) == SelectSeq(ss, LAMBDA s : s.subnetType = t)

publicSubnets   == SubnetsOfType(subnets, "PUBLIC")
isolatedSubnets == SubnetsOfType(subnets, "PRIVATE_ISOLATED")

\* `PublicSubnet${index + 1}Id` (a mutant first: the 0-based index is used as is)
SubnetOutputIdZeroBased(name, i) == name \o ToString(i) \o "Id"

SubnetOutputId(name, i) == name \o ToString(i + 1) \o "Id"

ExportName(id) == "LabInfra-" \o id

-----------------------------------------------------------------------------
(* Construction helpers *)

\* The stack that created construct id, or "none".
OwnerOf(id) ==
    IF \E c \in constructs : c.id = id
    THEN (CHOOSE c \in constructs : c.id = id).stack
    ELSE "none"

\* `new X(this, id, {... uses ...})` for each item [site, id, uses] in order,
\* inside the constructor of stack: the constructs join the tree under stack,
\* stack holds them and every object they are given, and a value that another
\* stack created flows from that stack into this one.
New(stack, items) ==
    LET ids  == {items[k].id : k \in DOMAIN items}
        used == UNION {items[k].uses : k \in DOMAIN items}
    IN  /\ constructs' = constructs \cup {[stack |-> stack, id |-> i] : i \in ids}
        /\ executed'   = executed \o [k \in DOMAIN items |-> items[k].site]
        /\ held'       = held \cup {<<o, stack>> : o \in ids \cup used}
        /\ flows'      = flows \cup
                         {[value |-> u, from |-> OwnerOf(u), to |-> stack] :
                            u \in {v \in used \ ids : OwnerOf(v) \notin {"none", stack}}}
        \* a reference to another stack's resource makes this stack depend on it
        /\ dependencies' = dependencies \cup
                         {<<stack, OwnerOf(u)>> :
                            u \in {v \in used \ ids : OwnerOf(v) \notin {"none", stack}}}

Item(id, uses) == [site |-> id, id |-> id, uses |-> uses]

Output(stack, ids) == outputs' = outputs \cup
                        {[stack |-> stack, id |-> i, exportName |-> ExportName(i)] : i \in ids}

FirstStep(stack) ==
    CASE stack = networkStack        -> "Network.super"
      [] stack = fargateServiceStack -> "Fargate.super"
      [] stack = pipelineStack       -> "Pipeline.super"

Position(stack) == CHOOSE k \in DOMAIN StackOrder : StackOrder[k] = stack

\* Where control goes when the constructor of stack returns: into the next
\* `new ...Stack(...)` statement, or on to addDependency.
AfterStack(stack) ==
    IF Position(stack) < Len(StackOrder)
    THEN FirstStep(StackOrder[Position(stack) + 1])
    ELSE "addDependency"

\* super(scope, id, props) of stack, called with the app as scope.
Super(stack) ==
    /\ pc = FirstStep(stack)
    /\ New(stack, << Item(stack, {"app"}) >>)
    /\ stackSeq' = Append(stackSeq, stack)

-----------------------------------------------------------------------------
(* Construction: bin/lab-infra.ts, top of file *)

InitSynthVars ==
    /\ processEnv \in [CDK_DEFAULT_ACCOUNT : Accounts, CDK_DEFAULT_REGION : Regions]
    /\ availableAzs \in 1..MaxAvailableAzs
    /\ pc = "start"
    /\ env = Undefined
    /\ stackSeq = <<>>
    /\ constructs = {}
    /\ executed = <<>>
    /\ held = {}
    /\ flows = {}
    /\ subnets = <<>>
    /\ outputs = {}
    /\ dependencies = {}
    /\ tags = {}
    /\ index = 0

\* const app = new cdk.App()
NewApp ==
    /\ pc = "start"
    /\ pc' = "env"
    /\ executed' = Append(executed, "app")
    /\ UNCHANGED <<processEnv, availableAzs, env, stackSeq, constructs, held, flows,
                   subnets, outputs, dependencies, tags, index, opsVars>>

\* const env = { account: ..., region: ... || "ap-northeast-1" }
BuildEnv ==
    /\ pc = "env"
    /\ env' = [account |-> processEnv.CDK_DEFAULT_ACCOUNT,
               region  |-> RegionOrDefault(processEnv.CDK_DEFAULT_REGION)]
    /\ pc' = FirstStep(StackOrder[1])
    /\ UNCHANGED <<processEnv, availableAzs, stackSeq, constructs, executed, held,
                   flows, subnets, outputs, dependencies, tags, index, opsVars>>

-----------------------------------------------------------------------------
(* Construction: lib/network-stack.ts *)

NetworkStackSuper ==
    /\ Super(networkStack)
    /\ pc' = "Network.Vpc"
    /\ UNCHANGED <<processEnv, availableAzs, env, subnets, outputs, tags, index, opsVars>>

\* this.vpc = new ec2.Vpc(this, "LabInfraVpc", {...})
NetworkStackVpc ==
    /\ pc = "Network.Vpc"
    /\ New(networkStack, << Item("LabInfraVpc", {}) >>)
    /\ subnets' = VpcSubnets(env, availableAzs)
    /\ pc' = "Network.VpcOutputs"
    /\ UNCHANGED <<processEnv, availableAzs, env, stackSeq, outputs, tags, index, opsVars>>

\* new cdk.CfnOutput(this, "VpcId", ...); new cdk.CfnOutput(this, "VpcCidr", ...)
NetworkStackVpcOutputs ==
    /\ pc = "Network.VpcOutputs"
    /\ New(networkStack, << Item("VpcId", {"LabInfraVpc"}), Item("VpcCidr", {"LabInfraVpc"}) >>)
    /\ Output(networkStack, {"VpcId", "VpcCidr"})
    /\ index' = 0
    /\ pc' = "Network.publicSubnets"
    /\ UNCHANGED <<processEnv, availableAzs, env, stackSeq, subnets, tags, opsVars>>

\* One call of the forEach callback over `list`, at the current index.
SubnetOutput(name) ==
    /\ New(networkStack, << [site |-> name \o "${index + 1}Id",
                             id   |-> SubnetOutputId(name, index),
                             uses |-> {"LabInfraVpc"}] >>)
    /\ Output(networkStack, {SubnetOutputId(name, index)})
    /\ index' = index + 1
    /\ UNCHANGED <<processEnv, availableAzs, pc, env, stackSeq, subnets, tags, opsVars>>

\* this.vpc.publicSubnets.forEach((subnet, index) => new cdk.CfnOutput(...))
NetworkStackPublicSubnetOutput ==
    /\ pc = "Network.publicSubnets"
    /\ index < Len(publicSubnets)
    /\ SubnetOutput("PublicSubnet")

NetworkStackPublicSubnetsDone ==
    /\ pc = "Network.publicSubnets"
    /\ index >= Len(publicSubnets)
    /\ index' = 0
    /\ pc' = "Network.isolatedSubnets"
    /\ UNCHANGED <<processEnv, availableAzs, env, stackSeq, constructs, executed, held,
                   flows, subnets, outputs, dependencies, tags, opsVars>>

\* this.vpc.isolatedSubnets.forEach((subnet, index) => new cdk.CfnOutput(...))
NetworkStackIsolatedSubnetOutput ==
    /\ pc = "Network.isolatedSubnets"
    /\ index < Len(isolatedSubnets)
    /\ SubnetOutput("PrivateSubnet")

NetworkStackIsolatedSubnetsDone ==
    /\ pc = "Network.isolatedSubnets"
    /\ index >= Len(isolatedSubnets)
    /\ index' = 0
    /\ pc' = AfterStack(networkStack)
    /\ UNCHANGED <<processEnv, availableAzs, env, stackSeq, constructs, executed, held,
                   flows, subnets, outputs, dependencies, tags, opsVars>>

-----------------------------------------------------------------------------
(* Construction: FargateServiceStack (lib/fargate-service-stack.ts) *)

FargateOutputIds == {"ClusterName", "ClusterArn", "ServiceName", "ServiceArn",
                     "TaskDefinitionArn", "LogGroupName"}

FargateServiceStackSuper ==
    /\ Super(fargateServiceStack)
    /\ pc' = "Fargate.LogGroup"
    /\ UNCHANGED <<processEnv, availableAzs, env, subnets, outputs, tags, index, opsVars>>

\* One block of `new` statements of the FargateServiceStack constructor.
FargateStep(at, items, to) ==
    /\ pc = at
    /\ New(fargateServiceStack, items)
    /\ pc' = to
    /\ UNCHANGED <<processEnv, availableAzs, env, stackSeq, subnets, outputs, tags,
                   index, opsVars>>

\* const logGroup = new logs.LogGroup(this, "LabInfraLogGroup", {...})
FargateServiceStackLogGroup ==
    FargateStep("Fargate.LogGroup", << Item("LabInfraLogGroup", {}) >>, "Fargate.Cluster")

\* this.cluster = new ecs.Cluster(this, "LabInfraCluster", { vpc: props.vpc, ... })
FargateServiceStackCluster ==
    FargateStep("Fargate.Cluster",
                << Item("LabInfraCluster", {FargateServiceStackProps.vpc}) >>,
                "Fargate.Roles")

\* taskExecutionRole, taskRole
FargateServiceStackRoles ==
    FargateStep("Fargate.Roles",
                << Item("LabInfraTaskExecutionRole", {}), Item("LabInfraTaskRole", {}) >>,
                "Fargate.TaskDefinition")

\* taskDefinition, taskDefinition.addContainer(...), container.addPortMappings(...)
FargateServiceStackTaskDefinition ==
    FargateStep("Fargate.TaskDefinition",
                << Item("LabInfraTaskDefinition",
                        {"LabInfraTaskExecutionRole", "LabInfraTaskRole"}),
                   Item("LabInfraContainer",
                        {"LabInfraTaskDefinition", "LabInfraLogGroup"}) >>,
                "Fargate.SecurityGroup")

\* securityGroup = new ec2.SecurityGroup(this, ..., { vpc: props.vpc, ... })
FargateServiceStackSecurityGroup ==
    FargateStep("Fargate.SecurityGroup",
                << Item("LabInfraSecurityGroup", {FargateServiceStackProps.vpc}) >>,
                "Fargate.Service")

\* this.service = new ecs.FargateService(this, "LabInfraService", {...})
FargateServiceStackService ==
    FargateStep("Fargate.Service",
                << Item("LabInfraService",
                        {"LabInfraCluster", "LabInfraTaskDefinition",
                         "LabInfraSecurityGroup"}) >>,
                "Fargate.Outputs")

\* the six CfnOutputs
FargateServiceStackOutputs ==
    /\ pc = "Fargate.Outputs"
    /\ New(fargateServiceStack,
           << Item("ClusterName", {"LabInfraCluster"}),
              Item("ClusterArn", {"LabInfraCluster"}),
              Item("ServiceName", {"LabInfraService"}),
              Item("ServiceArn", {"LabInfraService"}),
              Item("TaskDefinitionArn", {"LabInfraTaskDefinition"}),
              Item("LogGroupName", {"LabInfraLogGroup"}) >>)
    /\ Output(fargateServiceStack, FargateOutputIds)
    /\ pc' = AfterStack(fargateServiceStack)
    /\ UNCHANGED <<processEnv, availableAzs, env, stackSeq, subnets, tags, index, opsVars>>

-----------------------------------------------------------------------------
(* Construction: PipelineStack (lib/fargate-service-stack.ts, second part) *)

PipelineOutputIds == {"PipelineName", "PipelineArn", "SourceBucketName",
                      "BuildProjectName"}

PipelineStackSuper ==
    /\ Super(pipelineStack)
    /\ pc' = "Pipeline.Buckets"
    /\ UNCHANGED <<processEnv, availableAzs, env, subnets, outputs, tags, index, opsVars>>

PipelineStep(at, items, to) ==
    /\ pc = at
    /\ New(pipelineStack, items)
    /\ pc' = to
    /\ UNCHANGED <<processEnv, availableAzs, env, stackSeq, subnets, outputs, tags,
                   index, opsVars>>

\* this.sourceBucket, artifactBucket
PipelineStackBuckets ==
    PipelineStep("Pipeline.Buckets",
                 << Item("LabInfraSourceBucket", {}), Item("LabInfraArtifactBucket", {}) >>,
                 "Pipeline.BuildProject")

\* codeBuildRole (with its policies), buildProject
PipelineStackBuildProject ==
    PipelineStep("Pipeline.BuildProject",
                 << Item("LabInfraCodeBuildRole",
                         {"LabInfraSourceBucket", "LabInfraArtifactBucket"}),
                    Item("LabInfraBuildProject", {"LabInfraCodeBuildRole"}) >>,
                 "Pipeline.Pipeline")

\* pipelineRole (with its policies), this.pipeline and its three addStage calls
PipelineStackPipeline ==
    PipelineStep("Pipeline.Pipeline",
                 << Item("LabInfraPipelineRole",
                         {"LabInfraSourceBucket", "LabInfraArtifactBucket",
                          "LabInfraBuildProject"}),
                    Item("LabInfraPipeline",
                         {"LabInfraPipelineRole", "LabInfraArtifactBucket"}),
                    Item("Source", {"LabInfraPipeline", "LabInfraSourceBucket"}),
                    Item("Build", {"LabInfraPipeline", "LabInfraBuildProject"}),
                    Item("Deploy", {"LabInfraPipeline"}) >>,
                 "Pipeline.Outputs")

\* the four CfnOutputs
PipelineStackOutputs ==
    /\ pc = "Pipeline.Outputs"
    /\ New(pipelineStack,
           << Item("PipelineName", {"LabInfraPipeline"}),
              Item("PipelineArn", {"LabInfraPipeline"}),
              Item("SourceBucketName", {"LabInfraSourceBucket"}),
              Item("BuildProjectName", {"LabInfraBuildProject"}) >>)
    /\ Output(pipelineStack, PipelineOutputIds)
    /\ pc' = AfterStack(pipelineStack)
    /\ UNCHANGED <<processEnv, availableAzs, env, stackSeq, subnets, tags, index, opsVars>>

-----------------------------------------------------------------------------
(* Construction: bin/lab-infra.ts, end of file *)

\* fargateServiceStack.addDependency(networkStack)
AddDependency ==
    /\ pc = "addDependency"
    /\ dependencies' = dependencies \cup ExplicitDependencies
    /\ executed' = Append(executed, "addDependency")
    /\ pc' = "tags"
    /\ UNCHANGED <<processEnv, availableAzs, env, stackSeq, constructs, held, flows,
                   subnets, outputs, tags, index, opsVars>>

\* cdk.Tags.of(app).add(...) three times
AddTags ==
    /\ pc = "tags"
    /\ tags' = AppTags
    /\ executed' = Append(executed, "tags")
    /\ pc' = "done"
    /\ UNCHANGED <<processEnv, availableAzs, env, stackSeq, constructs, held, flows,
                   subnets, outputs, dependencies, index, opsVars>>

NextSynth ==
    \/ NewApp
    \/ BuildEnv
    \/ NetworkStackSuper
    \/ NetworkStackVpc
    \/ NetworkStackVpcOutputs
    \/ NetworkStackPublicSubnetOutput
    \/ NetworkStackPublicSubnetsDone
    \/ NetworkStackIsolatedSubnetOutput
    \/ NetworkStackIsolatedSubnetsDone
    \/ FargateServiceStackSuper
    \/ FargateServiceStackLogGroup
    \/ FargateServiceStackCluster
    \/ FargateServiceStackRoles
    \/ FargateServiceStackTaskDefinition
    \/ FargateServiceStackSecurityGroup
    \/ FargateServiceStackService
    \/ FargateServiceStackOutputs
    \/ PipelineStackSuper
    \/ PipelineStackBuckets
    \/ PipelineStackBuildProject
    \/ PipelineStackPipeline
    \/ PipelineStackOutputs
    \/ AddDependency
    \/ AddTags

-----------------------------------------------------------------------------
(* The synthesized app: what the stacks declare *)

\* A mutant of StackDependencies: no dependency is declared.
NoStackDependencies == {}

\* The Fargate stack's templates import the VPC's ids from the network stack.
ReferenceDependencies ==
    IF FargateServiceStackProps.vpc = "LabInfraVpc"
    THEN {<<fargateServiceStack, networkStack>>}
    ELSE {}

\* The dependencies the cloud assembly records: addDependency and references.
StackDependencies == ExplicitDependencies \cup ReferenceDependencies

\* FargateService: desiredCount: 1
ServiceDesiredCount == 1

\* The removal settings of the resources that hold data (a mutant first: the
\* source bucket is left with the default removal policy).
SourceBucketPropsRetain ==
    [versioned |-> TRUE, removalPolicy |-> "RETAIN", autoDeleteObjects |-> FALSE]

SourceBucketProps ==
    [versioned |-> TRUE, removalPolicy |-> "DESTROY", autoDeleteObjects |-> TRUE]

ArtifactBucketProps ==
    [versioned |-> TRUE, removalPolicy |-> "DESTROY", autoDeleteObjects |-> TRUE]

LogGroupProps == [removalPolicy |-> "DESTROY"]

\* container.addPortMappings({ containerPort: 80, protocol: TCP, name: "http" })
PortMappings == {[containerPort |-> 80, protocol |-> "tcp", name |-> "http"]}

AnyIpv4 == "0.0.0.0/0"

\* The rule left commented out in the source, in place of the one added.
IngressRulesHttpsOnly ==
    {[peer |-> AnyIpv4, protocol |-> "tcp", fromPort |-> 443, toPort |-> 443]}

\* securityGroup.addIngressRule(ec2.Peer.anyIpv4(), ec2.Port.tcp(80), ...)
IngressRules ==
    {[peer |-> AnyIpv4, protocol |-> "tcp", fromPort |-> 80, toPort |-> 80]}

\* LabInfraService: vpcSubnets, securityGroups, assignPublicIp
ServiceNetwork ==
    [subnetType |-> "PUBLIC", securityGroups |-> {"LabInfraSecurityGroup"},
     assignPublicIp |-> TRUE]

\* The subnets of the deployed Vpc (the app as synthesized for Init's environment).
DeployedSubnets ==
    VpcSubnets([account |-> Undefined, region |-> DefaultRegion], maxAzs)

\* The subnets the service places its tasks in.
ServiceSubnets ==
    {k \in DOMAIN DeployedSubnets :
        DeployedSubnets[k].subnetType = ServiceNetwork.subnetType}

\* The Vpc gives its PUBLIC subnets a default route to the internet gateway;
\* PRIVATE_ISOLATED subnets have no route out or in (natGateways: 0).
HasInternetRoute(subnet) == subnet.subnetType = "PUBLIC"

\* The security group admits a packet that one of its ingress rules matches.
Admits(rules, source, protocol, port) ==
    \E r \in rules :
        /\ r.peer = AnyIpv4 => source.family = "ipv4"
        /\ r.protocol = protocol
        /\ r.fromPort <= port /\ port <= r.toPort

\* The clients that send requests, and the ports they try (http and https).
Clients == {[family |-> "ipv4", address |-> "198.51.100.7"],
            [family |-> "ipv4", address |-> "203.0.113.9"]}

RequestPorts == {80, 443}

NoRequest == [port |-> 0, result |-> "none"]

\* What becomes of a TCP connection from source to the given port of a task's
\* public address: the task must have one, its subnet must be routed to the
\* internet gateway, the security group must admit the packet and the container
\* must have the port mapped (awsvpc: host port = container port).
Delivery(task, source, port) ==
    IF ~ task.publicIp THEN "no public address"
    ELSE IF ~ HasInternetRoute(DeployedSubnets[task.subnet]) THEN "no route"
    ELSE IF ~ Admits(IngressRules, source, "tcp", port) THEN "dropped"
    ELSE IF ~ \E m \in PortMappings : m.containerPort = port /\ m.protocol = "tcp"
         THEN "refused"
    ELSE "delivered"

\* The pipeline's stages in the order of the addStage calls, each with its
\* actions (runOrder defaults to 1). Mutants first.
DeployActionsSameRunOrder ==
    { [actionName |-> "DeployNetworkStack", runOrder |-> 1, stackName |-> networkStack],
      [actionName |-> "DeployFargateServiceStack", runOrder |-> 1,
       stackName |-> fargateServiceStack] }

SourceActions == { [actionName |-> "S3Source", runOrder |-> 1, stackName |-> "none"] }

BuildActions == { [actionName |-> "CDKSynth", runOrder |-> 1, stackName |-> "none"] }

DeployActions ==
    { [actionName |-> "DeployNetworkStack", runOrder |-> 1, stackName |-> networkStack],
      [actionName |-> "DeployFargateServiceStack", runOrder |-> 2,
       stackName |-> fargateServiceStack] }

PipelineStagesBuildFirst ==
    << [stageName |-> "Build",  actions |-> BuildActions],
       [stageName |-> "Source", actions |-> SourceActions],
       [stageName |-> "Deploy", actions |-> DeployActions] >>

PipelineStages ==
    << [stageName |-> "Source", actions |-> SourceActions],
       [stageName |-> "Build",  actions |-> BuildActions],
       [stageName |-> "Deploy", actions |-> DeployActions] >>

AllActions == UNION {PipelineStages[k].actions : k \in DOMAIN PipelineStages}

ActionNames == {a.actionName : a \in AllActions}

\* No execution: the pipeline has not run since it was created.
NoExecution == [n \in ActionNames |-> "None"]

-----------------------------------------------------------------------------
(* The runbooks (README and deployment guide) *)

\* `aws ecs update-service --desired-count n`: the counts the guide uses.
DesiredCounts == {0, 1, 2}

\* cdk destroy P; cdk destroy F; cdk destroy N (a mutant first).
DestroyOrderNetworkFirst == <<networkStack, fargateServiceStack, pipelineStack>>

DestroyOrder == <<pipelineStack, fargateServiceStack, networkStack>>

DestroyCommands == [k \in DOMAIN DestroyOrder |-> [op |-> "destroy", target |-> DestroyOrder[k]]]

\* Step 8.1 (a mutant first: the wait is left out).
StagedCleanupNoWait ==
    << [op |-> "update-service", target |-> "0"] >> \o DestroyCommands

StagedCleanup ==
    << [op |-> "update-service", target |-> "0"],
       [op |-> "wait services-stable", target |-> "none"] >> \o DestroyCommands

\* README: the three destroys one by one.
IndividualCleanup == DestroyCommands

\* npm run destroy / cdk destroy --all
DestroyAll == << [op |-> "destroy", target |-> "--all"] >>

Runbook(kind) ==
    CASE kind = "staged"     -> StagedCleanup
      [] kind = "individual" -> IndividualCleanup
      [] kind = "all"        -> DestroyAll

CleanupKinds == {"staged", "individual", "all"}

-----------------------------------------------------------------------------
(* The cdk CLI: which stacks a command works on, and in which order *)

DependsOn(s) == {t \in Stacks : <<s, t>> \in StackDependencies}

DependedOnBy(s) == {t \in Stacks : <<t, s>> \in StackDependencies}

\* A selection with everything it depends on (deploy) ...
RECURSIVE Upstream(_)
Upstream(S) ==
    LET more == S \cup UNION {DependsOn(s) : s \in S}
    IN  IF more = S THEN S ELSE Upstream(more)

\* ... and with everything that depends on it (destroy).
RECURSIVE Downstream(_)
Downstream(S) ==
    LET more == S \cup UNION {DependedOnBy(s) : s \in S}
    IN  IF more = S THEN S ELSE Downstream(more)

\* The stacks of S, dependencies first, otherwise in the order of construction.
RECURSIVE DeployOrder(_)
DeployOrder(S) ==
    IF S = {} THEN <<>>
    ELSE LET ready == {s \in S : DependsOn(s) \cap S = {}}
             first == CHOOSE s \in ready :
                          \A t \in ready : Position(s) <= Position(t)
         IN  <<first>> \o DeployOrder(S \ {first})

Reverse(q) == [k \in DOMAIN q |-> q[Len(q) + 1 - k]]

Selection(target) == IF target = "--all" THEN Stacks ELSE {target}

Targets == Stacks \cup {"--all"}

CliIdle == [cmd |-> "none", target |-> "none", queue |-> <<>>, current |-> "none",
            exit |-> "none"]

NoCleanup == [kind |-> "none", step |-> 0]

NoBucket == [exists |-> FALSE, objects |-> 0]

NoLogGroup == [exists |-> FALSE, streams |-> 0]

InProgress(s) == status[s] \in {"creating", "deleting", "deleting_buckets"}

OperatorIdle == cli.cmd = "none" /\ cleanup.kind = "none"

-----------------------------------------------------------------------------
(* CloudFormation *)

Imports(s) == {t \in Stacks : <<s, t>> \in ReferenceDependencies}

ImportedBy(s) == {t \in Stacks : <<t, s>> \in ReferenceDependencies}

\* CreateStack / an empty change set: a stack that exists is left as it is (its
\* template never changes); one that does not is created, unless an export it
\* imports is missing.
RequestDeploy(s) ==
    status' = IF status[s] = "absent" /\ \A t \in Imports(s) : status[t] = "deployed"
              THEN [status EXCEPT ![s] = "creating"]
              ELSE status

\* DeleteStack: refused while another stack imports an export of this one. The
\* custom resource that empties the buckets is gone after a failed deletion.
RequestDelete(s) ==
    status' = IF /\ status[s] \in {"deployed", "delete_failed"}
                 /\ \A t \in ImportedBy(s) : status[t] = "absent"
              THEN [status EXCEPT ![s] = IF status[s] = "delete_failed"
                                         THEN "deleting_buckets" ELSE "deleting"]
              ELSE status

\* Creation completes; the names of the resources it creates must be free.
CfnCreateComplete(s) ==
    /\ status[s] = "creating"
    /\ s = fargateServiceStack => ~ logGroup.exists
    /\ s = pipelineStack => ~ sourceBucket.exists /\ ~ artifactBucket.exists
    /\ status' = [status EXCEPT ![s] = "deployed"]
    /\ IF s = fargateServiceStack
       THEN /\ desiredCount' = ServiceDesiredCount
            /\ runningCount' = 0
            /\ logGroup' = [exists |-> TRUE, streams |-> 0]
       ELSE UNCHANGED <<desiredCount, runningCount, logGroup>>
    /\ IF s = pipelineStack
       THEN /\ sourceBucket' = [exists |-> TRUE, objects |-> 0]
            /\ artifactBucket' = [exists |-> TRUE, objects |-> 0]
       ELSE UNCHANGED <<sourceBucket, artifactBucket>>
    /\ UNCHANGED <<synthVars, netVars, cli, cleanup, execution, removed>>

\* Creation fails and rolls back.
CfnCreateFail(s) ==
    /\ status[s] = "creating"
    /\ status' = [status EXCEPT ![s] = "absent"]
    /\ UNCHANGED <<synthVars, netVars, cli, cleanup, execution, desiredCount, runningCount,
                   sourceBucket, artifactBucket, logGroup, removed>>

\* The network stack's resources are deleted.
CfnDeleteNetworkComplete ==
    /\ status[networkStack] = "deleting"
    /\ status' = [status EXCEPT ![networkStack] = "absent"]
    /\ UNCHANGED <<synthVars, netVars, cli, cleanup, execution, desiredCount, runningCount,
                   sourceBucket, artifactBucket, logGroup, removed>>

\* The service is deleted with its tasks; the log group goes by its removal policy.
CfnDeleteFargateComplete ==
    /\ status[fargateServiceStack] = "deleting"
    /\ status' = [status EXCEPT ![fargateServiceStack] = "absent"]
    /\ desiredCount' = 0
    /\ runningCount' = 0
    /\ IF LogGroupProps.removalPolicy = "DESTROY"
       THEN /\ logGroup' = NoLogGroup
            /\ removed' = removed \cup
                          (IF logGroup.streams > 0 THEN {"log streams"} ELSE {})
       ELSE UNCHANGED <<logGroup, removed>>
    /\ tasks' = <<>>
    /\ UNCHANGED <<synthVars, request, cli, cleanup, execution, sourceBucket,
                   artifactBucket>>

Emptied(props, bucket) ==
    IF props.autoDeleteObjects THEN [bucket EXCEPT !.objects = 0] ELSE bucket

\* autoDeleteObjects: the custom resource empties its bucket, every version.
CfnAutoDeleteObjects ==
    /\ status[pipelineStack] = "deleting"
    /\ status' = [status EXCEPT ![pipelineStack] = "deleting_buckets"]
    /\ sourceBucket' = Emptied(SourceBucketProps, sourceBucket)
    /\ artifactBucket' = Emptied(ArtifactBucketProps, artifactBucket)
    /\ removed' = removed
          \cup (IF sourceBucket'.objects < sourceBucket.objects
                THEN {"source versions"} ELSE {})
          \cup (IF artifactBucket'.objects < artifactBucket.objects
                THEN {"artifacts"} ELSE {})
    /\ UNCHANGED <<synthVars, netVars, cli, cleanup, execution, desiredCount, runningCount,
                   logGroup>>

\* A bucket with removal policy DESTROY can be deleted only when empty.
Deletable(props, bucket) == props.removalPolicy = "RETAIN" \/ bucket.objects = 0

AfterDelete(props, bucket) ==
    IF props.removalPolicy = "DESTROY" THEN NoBucket ELSE bucket

\* The pipeline and then the buckets are deleted.
CfnDeletePipelineComplete ==
    /\ status[pipelineStack] = "deleting_buckets"
    /\ Deletable(SourceBucketProps, sourceBucket)
    /\ Deletable(ArtifactBucketProps, artifactBucket)
    /\ status' = [status EXCEPT ![pipelineStack] = "absent"]
    /\ sourceBucket' = AfterDelete(SourceBucketProps, sourceBucket)
    /\ artifactBucket' = AfterDelete(ArtifactBucketProps, artifactBucket)
    /\ execution' = NoExecution
    /\ UNCHANGED <<synthVars, netVars, cli, cleanup, desiredCount, runningCount, logGroup,
                   removed>>

\* A bucket is not empty (an object arrived after it was emptied): DELETE_FAILED.
CfnDeletePipelineFail ==
    /\ status[pipelineStack] = "deleting_buckets"
    /\ ~ (Deletable(SourceBucketProps, sourceBucket)
          /\ Deletable(ArtifactBucketProps, artifactBucket))
    /\ status' = [status EXCEPT ![pipelineStack] = "delete_failed"]
    /\ execution' = NoExecution
    /\ UNCHANGED <<synthVars, netVars, cli, cleanup, desiredCount, runningCount, sourceBucket,
                   artifactBucket, logGroup, removed>>

-----------------------------------------------------------------------------
(* lab-infra-pipeline (CodePipeline running the stages PipelineStack declares) *)

ActionNamed(n) == CHOOSE a \in AllActions : a.actionName = n

StageIndex(n) == CHOOSE k \in DOMAIN PipelineStages :
                    ActionNamed(n) \in PipelineStages[k].actions

StageNamed(name) == CHOOSE k \in DOMAIN PipelineStages :
                       PipelineStages[k].stageName = name

StageActionNames(k) == {a.actionName : a \in PipelineStages[k].actions}

\* The status of stage k in execution e.
StageStatus(e, k) ==
    LET names == StageActionNames(k)
    IN  IF \E n \in names : e[n] = "Failed" THEN "Failed"
        ELSE IF \A n \in names : e[n] = "Succeeded" THEN "Succeeded"
        ELSE IF \E n \in names : e[n] # "NotStarted" THEN "InProgress"
        ELSE "NotStarted"

ExecutionOver(e) ==
    /\ \A n \in ActionNames : e[n] # "InProgress"
    /\ \/ \E n \in ActionNames : e[n] = "Failed"
       \/ \A n \in ActionNames : e[n] = "Succeeded"

PipelineExists == status[pipelineStack] \in {"deployed", "deleting", "deleting_buckets"}

\* start-pipeline-execution, or the S3 source's poll noticing an upload.
StartPipelineExecution ==
    /\ status[pipelineStack] = "deployed"
    /\ execution = NoExecution \/ ExecutionOver(execution)
    /\ execution' = [n \in ActionNames |-> "NotStarted"]
    /\ UNCHANGED <<synthVars, netVars, status, cli, cleanup, desiredCount, runningCount,
                   sourceBucket, artifactBucket, logGroup, removed>>

\* An action may start when nothing has failed, every earlier stage has succeeded
\* and every action of its stage with a lower runOrder has succeeded.
MayStart(e, n) ==
    /\ e[n] = "NotStarted"
    /\ \A m \in ActionNames : e[m] # "Failed"
    /\ \A k \in 1..(StageIndex(n) - 1) : StageStatus(e, k) = "Succeeded"
    /\ \A a \in PipelineStages[StageIndex(n)].actions :
          a.runOrder < ActionNamed(n).runOrder => e[a.actionName] = "Succeeded"

ActionStart(n) ==
    /\ PipelineExists
    /\ execution # NoExecution
    /\ MayStart(execution, n)
    /\ execution' = [execution EXCEPT ![n] = "InProgress"]
    /\ IF ActionNamed(n).stackName \in Stacks
       THEN /\ ~ InProgress(ActionNamed(n).stackName)
            /\ RequestDeploy(ActionNamed(n).stackName)
       ELSE UNCHANGED status
    /\ UNCHANGED <<synthVars, netVars, cli, cleanup, desiredCount, runningCount, sourceBucket,
                   artifactBucket, logGroup, removed>>

\* What the action finds when it ends.
Outcomes(n) ==
    CASE n = "S3Source" ->
            IF sourceBucket.exists /\ sourceBucket.objects > 0
            THEN {"Succeeded"} ELSE {"Failed"}
      [] n = "CDKSynth" -> {"Succeeded", "Failed"}
      [] OTHER ->
            IF status[ActionNamed(n).stackName] = "deployed"
            THEN {"Succeeded"} ELSE {"Failed"}

\* An action that succeeds in the Source or Build stage stores its output
\* artifact in the artifact bucket.
ActionFinish(n) ==
    /\ PipelineExists
    /\ execution # NoExecution
    /\ execution[n] = "InProgress"
    /\ ActionNamed(n).stackName \in Stacks => ~ InProgress(ActionNamed(n).stackName)
    /\ \E o \in Outcomes(n) :
          /\ execution' = [execution EXCEPT ![n] = o]
          /\ IF /\ o = "Succeeded"
                /\ ActionNamed(n).stackName \notin Stacks
                /\ artifactBucket.exists
                /\ artifactBucket.objects < MaxObjects
             THEN artifactBucket' = [artifactBucket EXCEPT !.objects = @ + 1]
             ELSE UNCHANGED artifactBucket
    /\ UNCHANGED <<synthVars, netVars, status, cli, cleanup, desiredCount, runningCount,
                   sourceBucket, logGroup, removed>>

-----------------------------------------------------------------------------
(* lab-infra-service (ECS) *)

ServiceExists == status[fargateServiceStack] = "deployed"

\* The scheduler starts a task; the task opens a log stream.
TaskStart ==
    /\ ServiceExists
    /\ runningCount < desiredCount
    /\ runningCount' = runningCount + 1
    /\ \E k \in ServiceSubnets :
          tasks' = Append(tasks, [subnet   |-> k,
                                  publicIp |-> ServiceNetwork.assignPublicIp])
    /\ logGroup' = IF logGroup.exists /\ logGroup.streams < MaxLogStreams
                   THEN [logGroup EXCEPT !.streams = @ + 1] ELSE logGroup
    /\ UNCHANGED <<synthVars, request, status, cli, cleanup, execution, desiredCount,
                   sourceBucket, artifactBucket, removed>>

\* The scheduler stops a task that is one too many, or the service is going.
TaskStop ==
    /\ runningCount > 0
    /\ runningCount > desiredCount \/ status[fargateServiceStack] = "deleting"
    /\ runningCount' = runningCount - 1
    /\ \E k \in DOMAIN tasks :
          tasks' = SubSeq(tasks, 1, k - 1) \o SubSeq(tasks, k + 1, Len(tasks))
    /\ UNCHANGED <<synthVars, request, status, cli, cleanup, execution, desiredCount,
                   sourceBucket, artifactBucket, logGroup, removed>>

\* http://[PUBLIC-IP] (and other ports): a client connects to a running task.
HttpRequest(k, source, port) ==
    /\ k \in DOMAIN tasks
    /\ request' = [port |-> port, result |-> Delivery(tasks[k], source, port)]
    /\ UNCHANGED <<synthVars, tasks, status, cli, cleanup, execution, desiredCount,
                   runningCount, sourceBucket, artifactBucket, logGroup, removed>>

-----------------------------------------------------------------------------
(* The cdk CLI *)

Exited(result) == [cmd |-> "exited", target |-> cli.target, queue |-> <<>>,
                   current |-> "none", exit |-> result]

\* The stack just handled is done: on to the next, or exit when it was the last.
Advance ==
    IF Len(cli.queue) > 1
    THEN [cli EXCEPT !.queue = Tail(@), !.current = "none"]
    ELSE Exited("ok")

\* cdk deploy <stack> / cdk deploy --all: the selection with its dependencies,
\* dependencies first.
CdkDeploy(target) ==
    /\ OperatorIdle
    /\ cli' = [cmd |-> "deploy", target |-> target,
               queue |-> DeployOrder(Upstream(Selection(target))),
               current |-> "none", exit |-> "none"]
    /\ UNCHANGED <<synthVars, netVars, status, cleanup, execution, desiredCount, runningCount,
                   sourceBucket, artifactBucket, logGroup, removed>>

\* The CLI starts on the next stack of its queue.
CdkDeployBegin ==
    /\ cli.cmd = "deploy"
    /\ cli.current = "none"
    /\ ~ InProgress(Head(cli.queue))
    /\ cli' = [cli EXCEPT !.current = Head(cli.queue)]
    /\ RequestDeploy(Head(cli.queue))
    /\ UNCHANGED <<synthVars, netVars, cleanup, execution, desiredCount, runningCount,
                   sourceBucket, artifactBucket, logGroup, removed>>

\* The stack's deployment has ended: go on if it is deployed, stop if not.
CdkDeployEnd ==
    /\ cli.cmd = "deploy"
    /\ cli.current # "none"
    /\ ~ InProgress(cli.current)
    /\ cli' = IF status[cli.current] = "deployed" THEN Advance ELSE Exited("failed")
    /\ UNCHANGED <<synthVars, netVars, status, cleanup, execution, desiredCount, runningCount,
                   sourceBucket, artifactBucket, logGroup, removed>>

\* The CLI starts deleting the next stack of its queue (one that does not exist
\* is passed over).
CdkDestroyBegin ==
    /\ cli.cmd = "destroy"
    /\ cli.current = "none"
    /\ ~ InProgress(Head(cli.queue))
    /\ cli' = [cli EXCEPT !.current = Head(cli.queue)]
    /\ RequestDelete(Head(cli.queue))
    /\ UNCHANGED <<synthVars, netVars, cleanup, execution, desiredCount, runningCount,
                   sourceBucket, artifactBucket, logGroup, removed>>

\* The operator answers no to the confirmation, or interrupts between two stacks.
CdkDestroyAbort ==
    /\ cli.cmd = "destroy"
    /\ cli.current = "none"
    /\ cli' = Exited("failed")
    /\ UNCHANGED <<synthVars, netVars, status, cleanup, execution, desiredCount, runningCount,
                   sourceBucket, artifactBucket, logGroup, removed>>

\* The stack's deletion has ended: go on if it is gone, stop if not.
CdkDestroyEnd ==
    /\ cli.cmd = "destroy"
    /\ cli.current # "none"
    /\ ~ InProgress(cli.current)
    /\ cli' = IF status[cli.current] = "absent" THEN Advance ELSE Exited("failed")
    /\ UNCHANGED <<synthVars, netVars, status, cleanup, execution, desiredCount, runningCount,
                   sourceBucket, artifactBucket, logGroup, removed>>

-----------------------------------------------------------------------------
(* The operator *)

\* Outside a runbook, the operator takes note of the CLI's exit.
OperatorSeesExit ==
    /\ cleanup.kind = "none"
    /\ cli.cmd = "exited"
    /\ cli' = CliIdle
    /\ UNCHANGED <<synthVars, netVars, status, cleanup, execution, desiredCount, runningCount,
                   sourceBucket, artifactBucket, logGroup, removed>>

\* aws s3 cp source.zip s3://[SourceBucketName]/source.zip
Upload ==
    /\ OperatorIdle
    /\ sourceBucket.exists
    /\ sourceBucket.objects < MaxObjects
    /\ sourceBucket' = [sourceBucket EXCEPT
                           !.objects = IF SourceBucketProps.versioned THEN @ + 1 ELSE 1]
    /\ UNCHANGED <<synthVars, netVars, status, cli, cleanup, execution, desiredCount,
                   runningCount, artifactBucket, logGroup, removed>>

\* aws ecs update-service --desired-count n (Step 7.1)
Scale(n) ==
    /\ OperatorIdle
    /\ ServiceExists
    /\ desiredCount # n
    /\ desiredCount' = n
    /\ UNCHANGED <<synthVars, netVars, status, cli, cleanup, execution, runningCount,
                   sourceBucket, artifactBucket, logGroup, removed>>

\* The operator sets out on one of the documented cleanups.
BeginCleanup(kind) ==
    /\ OperatorIdle
    /\ cleanup' = [kind |-> kind, step |-> 1]
    /\ UNCHANGED <<synthVars, netVars, status, cli, execution, desiredCount, runningCount,
                   sourceBucket, artifactBucket, logGroup, removed>>

AtStep(op) ==
    /\ cleanup.kind # "none"
    /\ cli.cmd = "none"
    /\ cleanup.step <= Len(Runbook(cleanup.kind))
    /\ Runbook(cleanup.kind)[cleanup.step].op = op

\* 1. aws ecs update-service ... --desired-count 0 (the cleanup stops here when
\* the command fails because there is no service)
RunbookUpdateService ==
    /\ AtStep("update-service")
    /\ IF ServiceExists
       THEN /\ desiredCount' = 0
            /\ cleanup' = [cleanup EXCEPT !.step = @ + 1]
       ELSE /\ cleanup' = NoCleanup
            /\ UNCHANGED desiredCount
    /\ UNCHANGED <<synthVars, netVars, status, cli, execution, runningCount, sourceBucket,
                   artifactBucket, logGroup, removed>>

\* 2. aws ecs wait services-stable: returns once runningCount = desiredCount
RunbookWait ==
    /\ AtStep("wait services-stable")
    /\ ServiceExists
    /\ runningCount = desiredCount
    /\ cleanup' = [cleanup EXCEPT !.step = @ + 1]
    /\ UNCHANGED <<synthVars, netVars, status, cli, execution, desiredCount, runningCount,
                   sourceBucket, artifactBucket, logGroup, removed>>

\* 3. cdk destroy <stack> / cdk destroy --all: the selection with the stacks
\* that depend on it, dependants first.
RunbookDestroy ==
    /\ AtStep("destroy")
    /\ LET target == Runbook(cleanup.kind)[cleanup.step].target
       IN  cli' = [cmd |-> "destroy", target |-> target,
                   queue |-> Reverse(DeployOrder(Downstream(Selection(target)))),
                   current |-> "none", exit |-> "none"]
    /\ cleanup' = [cleanup EXCEPT !.step = @ + 1]
    /\ UNCHANGED <<synthVars, netVars, status, execution, desiredCount, runningCount,
                   sourceBucket, artifactBucket, logGroup, removed>>

\* The command has exited: the operator goes on to the next one, or stops
\* following the runbook when it failed.
RunbookSeesExit ==
    /\ cleanup.kind # "none"
    /\ cli.cmd = "exited"
    /\ cli' = CliIdle
    /\ cleanup' = IF cli.exit = "ok" THEN cleanup ELSE NoCleanup
    /\ UNCHANGED <<synthVars, netVars, status, execution, desiredCount, runningCount,
                   sourceBucket, artifactBucket, logGroup, removed>>

RunbookDone ==
    /\ cleanup.kind # "none"
    /\ cli.cmd = "none"
    /\ cleanup.step > Len(Runbook(cleanup.kind))
    /\ cleanup' = NoCleanup
    /\ UNCHANGED <<synthVars, netVars, status, cli, execution, desiredCount, runningCount,
                   sourceBucket, artifactBucket, logGroup, removed>>

-----------------------------------------------------------------------------
(* Specifications *)

InitOpsVars ==
    /\ status = [s \in Stacks |-> "absent"]
    /\ cli = CliIdle
    /\ cleanup = NoCleanup
    /\ execution = NoExecution
    /\ desiredCount = 0
    /\ runningCount = 0
    /\ sourceBucket = NoBucket
    /\ artifactBucket = NoBucket
    /\ logGroup = NoLogGroup
    /\ removed = {}
    /\ tasks = <<>>
    /\ request = NoRequest

\* Construction, for every environment; nothing is deployed meanwhile.
InitSynth == InitSynthVars /\ InitOpsVars

SpecSynth == InitSynth /\ [][NextSynth]_vars

\* The app as synthesized for the default environment, nothing deployed yet.
\* What the stacks declare is read from the definitions above; the construction
\* variables are not touched again.
Init ==
    /\ processEnv = [CDK_DEFAULT_ACCOUNT |-> Undefined, CDK_DEFAULT_REGION |-> Undefined]
    /\ availableAzs = maxAzs
    /\ pc = "start"
    /\ env = Undefined
    /\ stackSeq = <<>>
    /\ constructs = {}
    /\ executed = <<>>
    /\ held = {}
    /\ flows = {}
    /\ subnets = <<>>
    /\ outputs = {}
    /\ dependencies = {}
    /\ tags = {}
    /\ index = 0
    /\ InitOpsVars

Next ==
    \/ \E s \in Stacks : CfnCreateComplete(s)
    \/ \E s \in Stacks : CfnCreateFail(s)
    \/ CfnDeleteNetworkComplete
    \/ CfnDeleteFargateComplete
    \/ CfnAutoDeleteObjects
    \/ CfnDeletePipelineComplete
    \/ CfnDeletePipelineFail
    \/ StartPipelineExecution
    \/ \E n \in ActionNames : ActionStart(n)
    \/ \E n \in ActionNames : ActionFinish(n)
    \/ TaskStart
    \/ TaskStop
    \/ \E k \in 1..Len(tasks) : \E c \in Clients : \E p \in RequestPorts :
          HttpRequest(k, c, p)
    \/ \E t \in Targets : CdkDeploy(t)
    \/ CdkDeployBegin
    \/ CdkDeployEnd
    \/ CdkDestroyBegin
    \/ CdkDestroyAbort
    \/ CdkDestroyEnd
    \/ OperatorSeesExit
    \/ Upload
    \/ \E n \in DesiredCounts : Scale(n)
    \/ \E k \in CleanupKinds : BeginCleanup(k)
    \/ RunbookUpdateService
    \/ RunbookWait
    \/ RunbookDestroy
    \/ RunbookSeesExit
    \/ RunbookDone

Spec == Init /\ [][Next]_vars

-----------------------------------------------------------------------------
(* Claims about construction (SpecSynth) *)

ConstructIds == {c.id : c \in constructs}

Holders(o) == {s \in Stacks : <<o, s>> \in held}

Count(site) == Cardinality({k \in DOMAIN executed : executed[k] = site})

IsPrefix(p, q) == Len(p) <= Len(q) /\ \A k \in DOMAIN p : p[k] = q[k]

OutputIds(stack) == {o.id : o \in {x \in outputs : x.stack = stack}}

\* The zones the Vpc spreads over: two, unless the environment is concrete and
\* offers a single one.
ZonesUsed ==
    IF processEnv.CDK_DEFAULT_ACCOUNT # Undefined /\ availableAzs < 2
    THEN availableAzs ELSE 2

VpcFlow == [value |-> "LabInfraVpc", from |-> networkStack, to |-> fargateServiceStack]

SubnetOutputSites == {"PublicSubnet${index + 1}Id", "PrivateSubnet${index + 1}Id"}

\* Every construction statement of the app, by site.
ConstructionSites ==
    { "app", "LabInfraNetworkStack", "LabInfraVpc", "VpcId", "VpcCidr",
      "PublicSubnet${index + 1}Id", "PrivateSubnet${index + 1}Id",
      "LabInfraFargateServiceStack", "LabInfraLogGroup", "LabInfraCluster",
      "LabInfraTaskExecutionRole", "LabInfraTaskRole", "LabInfraTaskDefinition",
      "LabInfraContainer", "LabInfraSecurityGroup", "LabInfraService",
      "ClusterName", "ClusterArn", "ServiceName", "ServiceArn", "TaskDefinitionArn",
      "LogGroupName",
      "LabInfraPipelineStack", "LabInfraSourceBucket", "LabInfraArtifactBucket",
      "LabInfraCodeBuildRole", "LabInfraBuildProject", "LabInfraPipelineRole",
      "LabInfraPipeline", "Source", "Build", "Deploy",
      "PipelineName", "PipelineArn", "SourceBucketName", "BuildProjectName",
      "addDependency", "tags" }

\* C2 as stated: construction is straight-line (no statement is executed more
\* than once) and no value made while constructing one stack is used while
\* constructing another.
C2_StraightLineNoDataFlow ==
    /\ \A site \in ConstructionSites : Count(site) <= 1
    /\ flows = {}

\* C2, amended: no construction statement is conditional (once construction is
\* done every statement has been executed, in every environment); the only
\* statements executed more than once are the two subnet outputs, once per
\* subnet of their kind; and the only value made in one stack and used in
\* another is the network stack's vpc, used in the Fargate service stack.
C2_OnlyVpcFlowsOnlySubnetLoops ==
    /\ \A k \in DOMAIN executed : executed[k] \in ConstructionSites
    /\ \A site \in ConstructionSites \ SubnetOutputSites : Count(site) <= 1
    /\ flows \subseteq {VpcFlow}
    /\ pc = "done" =>
          /\ \A site \in ConstructionSites \ SubnetOutputSites : Count(site) = 1
          /\ Count("PublicSubnet${index + 1}Id") = Len(publicSubnets)
          /\ Count("PrivateSubnet${index + 1}Id") = Len(isolatedSubnets)
          /\ Len(publicSubnets) = ZonesUsed
          /\ Len(isolatedSubnets) = ZonesUsed
          /\ flows = {VpcFlow}

\* C2's case: construction is done, a subnet output statement has run twice and
\* the vpc has crossed from the network stack to the Fargate service stack.
C2_Witness ==
    /\ pc = "done"
    /\ Count("PublicSubnet${index + 1}Id") = 2
    /\ VpcFlow \in flows

NetworkOutputIds ==
    {"VpcId", "VpcCidr", "PublicSubnet1Id", "PublicSubnet2Id",
     "PrivateSubnet1Id", "PrivateSubnet2Id"}

SharedConstructs == {o \in ConstructIds : Cardinality(Holders(o)) > 1}

VpcCreated == "LabInfraVpc" \in ConstructIds

SubnetIndices == DOMAIN subnets

SubnetEnd(s) == s.base + CidrSize(s.cidrMask)

\* Every subnet is a /24 inside 10.0.0.0/16 and no two subnets overlap.
SubnetsWellPlaced ==
    /\ \A k \in SubnetIndices :
          /\ subnets[k].cidrMask = 24
          /\ subnets[k].base % 256 = 0
          /\ subnets[k].base >= 10 * 2^24
          /\ SubnetEnd(subnets[k]) <= 10 * 2^24 + 2^16
    /\ \A j, k \in SubnetIndices :
          j # k => \/ SubnetEnd(subnets[j]) <= subnets[k].base
                   \/ SubnetEnd(subnets[k]) <= subnets[j].base

\* Exactly one subnet of each kind in each of the zones 1..n, and no other.
OneOfEachKindPerZone(n) ==
    /\ Len(subnets) = 2 * n
    /\ \A t \in {"PUBLIC", "PRIVATE_ISOLATED"} : \A az \in 1..n :
          Cardinality({k \in SubnetIndices :
                          subnets[k].subnetType = t /\ subnets[k].az = az}) = 1

-----------------------------------------------------------------------------
(* Claims about the deployed app (Spec) *)

\* C1: the Fargate service stack depends on the network stack and on nothing
\* else, no other stack depends on anything, and so the Fargate service stack is
\* never being deployed (by the CLI or by CloudFormation) unless the network
\* stack is deployed.
C1_FargateDeployedAfterNetwork ==
    /\ StackDependencies = {<<fargateServiceStack, networkStack>>}
    /\ (cli.cmd = "deploy" /\ cli.current = fargateServiceStack)
          => status[networkStack] = "deployed"
    /\ status[fargateServiceStack] = "creating" => status[networkStack] = "deployed"

\* C1's case: one cdk deploy --all has deployed the network stack and is now
\* creating the Fargate service stack.
C1_Witness ==
    /\ cli.cmd = "deploy"
    /\ cli.target = "--all"
    /\ cli.current = fargateServiceStack
    /\ status[fargateServiceStack] = "creating"
    /\ status[pipelineStack] = "absent"

Running == execution # NoExecution

Stage(name) == StageStatus(execution, StageNamed(name))

\* C5: in a pipeline execution the stages run in the order Source, Build,
\* Deploy: Build does not start before Source has succeeded, Deploy does not
\* start before Build has succeeded, and nothing after a failed stage starts.
C5_StagesInOrder ==
    Running =>
        /\ Stage("Build") # "NotStarted" => Stage("Source") = "Succeeded"
        /\ Stage("Deploy") # "NotStarted" => Stage("Build") = "Succeeded"
        /\ Stage("Source") = "Failed" =>
              Stage("Build") = "NotStarted" /\ Stage("Deploy") = "NotStarted"
        /\ Stage("Build") = "Failed" => Stage("Deploy") = "NotStarted"
        /\ execution["S3Source"] \in {"NotStarted", "InProgress"} =>
              \A n \in ActionNames \ {"S3Source"} : execution[n] = "NotStarted"
        /\ execution["CDKSynth"] \in {"NotStarted", "InProgress", "Failed"} =>
              /\ execution["DeployNetworkStack"] = "NotStarted"
              /\ execution["DeployFargateServiceStack"] = "NotStarted"

\* C5's case: an execution whose Source and Build stages have succeeded and
\* whose Deploy stage has started.
C5_Witness ==
    /\ Running
    /\ Stage("Source") = "Succeeded"
    /\ Stage("Build") = "Succeeded"
    /\ Stage("Deploy") = "InProgress"

Destroying(target) == cli.cmd = "destroy" /\ cli.target = target

\* C7: a cleanup destroys the stacks in the order Pipeline, Fargate, Network:
\* the destroy of the Fargate service stack is issued only once the pipeline
\* stack is gone, the destroy of the network stack only once both others are
\* gone, and (whatever command is used) the network stack is deployed for as
\* long as the Fargate service stack exists.
C7_TeardownInReverseOrder ==
    /\ (cleanup.kind \in {"staged", "individual"} /\ Destroying(fargateServiceStack))
          => status[pipelineStack] = "absent"
    /\ (cleanup.kind \in {"staged", "individual"} /\ Destroying(networkStack))
          => /\ status[pipelineStack] = "absent"
             /\ status[fargateServiceStack] = "absent"
    /\ status[fargateServiceStack] # "absent" => status[networkStack] = "deployed"
    /\ status[networkStack] = "deleting" => status[fargateServiceStack] = "absent"

\* C7's case: the third destroy of a cleanup is deleting the network stack,
\* after the other two stacks have been deleted.
C7_Witness ==
    /\ cleanup.kind \in {"staged", "individual"}
    /\ Destroying(networkStack)
    /\ status[networkStack] = "deleting"
    /\ status[fargateServiceStack] = "absent"
    /\ status[pipelineStack] = "absent"

\* A destroy command of the staged cleanup has been issued.
StagedDestroyIssued ==
    /\ cleanup.kind = "staged"
    /\ cleanup.step > 1
    /\ StagedCleanup[cleanup.step - 1].op = "destroy"

\* C8: in the staged cleanup the service is scaled to zero and has become stable
\* (no task is running) before any stack destroy is issued, and it stays so for
\* the rest of the cleanup.
C8_ServiceStoppedBeforeDestroy ==
    StagedDestroyIssued => desiredCount = 0 /\ runningCount = 0

\* C8's case: the staged cleanup has issued its first destroy, of the pipeline
\* stack, while the service (which had run a task) still exists.
C8_Witness ==
    /\ StagedDestroyIssued
    /\ Destroying(pipelineStack)
    /\ status[pipelineStack] = "deleting"
    /\ status[fargateServiceStack] = "deployed"
    /\ logGroup.streams > 0

AllDestroyed == \A s \in Stacks : status[s] = "absent"

\* C9: once all three stacks are destroyed, the source bucket and the artifact
\* bucket (with every object and version in them) and the log group
\* /aws/ecs/lab-infra (with its streams) are gone.
C9_NothingLeftAfterDestroy ==
    AllDestroyed =>
        /\ sourceBucket = NoBucket
        /\ artifactBucket = NoBucket
        /\ logGroup = NoLogGroup

\* C9's case: all three stacks have been destroyed, and their deletion removed
\* object versions from the source bucket, artifacts from the artifact bucket
\* and log streams from the log group.
C9_Witness ==
    /\ AllDestroyed
    /\ removed = {"source versions", "artifacts", "log streams"}

\* C11: once the Fargate stack is deployed and a task is running, an HTTP
\* request to port 80 of the task's public address reaches the container: every
\* running task sits in a public subnet and has a public address, the security
\* group admits TCP 80 from every IPv4 client, every port the security group
\* admits is a port the container maps, and every request sent to port 80 of a
\* task is delivered.
C11_HttpReachesContainer ==
    /\ Len(tasks) = runningCount
    /\ tasks # <<>> => status[fargateServiceStack] \in {"deployed", "deleting"}
    /\ \A k \in DOMAIN tasks :
          /\ tasks[k].publicIp
          /\ DeployedSubnets[tasks[k].subnet].subnetType = "PUBLIC"
    /\ \A c \in Clients : Admits(IngressRules, c, "tcp", 80)
    /\ \A r \in IngressRules : \A port \in r.fromPort .. r.toPort :
          \E m \in PortMappings : m.containerPort = port /\ m.protocol = r.protocol
    /\ request.port = 80 => request.result = "delivered"

\* C11's case: the Fargate stack is deployed, its one task is running, and a
\* request to port 80 of the task has been delivered.
C11_Witness ==
    /\ status[fargateServiceStack] = "deployed"
    /\ runningCount = 1
    /\ desiredCount = 1
    /\ request = [port |-> 80, result |-> "delivered"]

====
